---- MODULE Spec2Model ----
(***************************************************************************)
(* Model of the GeoJSON -> PostGIS scripts: ingest.py (examine_geojson,    *)
(* ingest_geojson_to_postgis and the script body), list_tables.py,         *)
(* main.py, query_1.py and query_examples.py.                              *)
(*                                                                         *)
(* One run of one script is one behaviour.  The input file, the operator's *)
(* answers and the database's verdict on each statement are the inputs.    *)
(***************************************************************************)
EXTENDS Integers, Sequences, FiniteSets, TLC

VARIABLES
    script,            \* which script is running
    pc,                \* position in the script
    conn,              \* "none" | "open" | "closed"
    file,              \* the GeoJSON file on disk: [exists, decodes, data]
    source_srid_arg,   \* source_srid passed to ingest_geojson_to_postgis (Option)
    target_srid,       \* target_srid passed to ingest_geojson_to_postgis
    geojson_info,      \* what examine_geojson returned (Option)
    postgis_type,      \* Option
    source_srid,       \* resolved inside ingest_geojson_to_postgis (Option)
    columns,           \* sequence of [name, col_type]
    create_table_sql,  \* Option of the DDL statement
    side_file,         \* Option: content of <table>_table_structure.sql
    proceed,           \* Option: lower-cased answer to the confirmation prompt
    db,                \* the database session: [txn, table, stmts, committed]
    idx,               \* number of features the insert loop has gone through
    total,
    inserted,
    failures,          \* "Error inserting feature" lines printed
    tally,             \* Option: <<inserted, total>> of the "Completed" line
    progress,          \* the "Progress:" lines printed, each <<inserted, total>>
    examine_log,       \* Option: what examine_geojson attempted and printed
    prompts,           \* the input() prompts answered so far
    result             \* Option: return value of ingest_geojson_to_postgis

vars == << script, pc, conn, file, source_srid_arg, target_srid, geojson_info,
           postgis_type, source_srid, columns, create_table_sql, side_file,
           proceed, db, idx, total, inserted, failures, tally, progress,
           examine_log, prompts, result >>

-----------------------------------------------------------------------------
(* Bounds of the model *)

MaxFeatures == 3    \* features in the documents of the insert-loop inputs
MaxShort    == 2    \* features in the documents of the other inputs
MaxProps    == 2    \* properties of the first feature in the column inputs
MaxNameLen  == 3    \* symbols in a CRS name
MaxBeyond   == 1    \* features beyond ProgressEvery in the long documents

-----------------------------------------------------------------------------
(* Python values *)

None == << >>
Some(x) == << x >>
IsNone(o) == o = << >>
Val(o) == o[1]

\* The value kinds json.load produces for a property value.
ValueKinds == {"bool", "int", "float", "str", "null", "nested"}

\* isinstance(v, int): bool is a subclass of int in Python.
isinstance_int(kind) == kind \in {"int", "bool"}
isinstance_float(kind) == kind = "float"
isinstance_bool(kind) == kind = "bool"

\* The six geometry types of postgis_type_map, and one GeoJSON type outside it.
KnownTypes == {"Point", "LineString", "Polygon",
               "MultiPoint", "MultiLineString", "MultiPolygon"}
GeometryLabels == KnownTypes \cup {"GeometryCollection"}

\* A feature's 'geometry': absent (or without 'type'), JSON null, or typed.
GeomAbsent == [tag |-> "absent", type |-> ""]
GeomNull == [tag |-> "null", type |-> ""]
GeomOf(label) == [tag |-> "typed", type |-> label]
Geometries == {GeomAbsent, GeomNull} \cup {GeomOf(l) : l \in GeometryLabels}

\* A 'properties' value: absent key, JSON null, or an object (ordered items).
PropsAbsent == [tag |-> "absent", items |-> << >>]
PropsNull == [tag |-> "null", items |-> << >>]
PropsOf(items) == [tag |-> "dict", items |-> items]
Item(n, k) == [name |-> n, kind |-> k]

Feature(g, p) == [geometry |-> g, properties |-> p]

\* dict.get('properties', {}): the default only replaces an absent key.
get_properties(feature) ==
    IF feature.properties.tag = "absent" THEN PropsOf(<< >>)
    ELSE feature.properties

SeqsUpTo(S, n) == UNION {[1..k -> S] : k \in 0..n}
InjSeqs(S, n) == {s \in SeqsUpTo(S, n) :
                     \A i, j \in DOMAIN s : i /= j => s[i] /= s[j]}
Range(s) == {s[i] : i \in DOMAIN s}

-----------------------------------------------------------------------------
(* examine_geojson *)

encodings_to_try == << "utf-8", "latin-1", "cp1252" >>

\* What open()+json.load() does under one encoding.
DecodeOutcomes == {"ok", "unicode_error", "json_error", "os_error"}

\* The loop over encodings_to_try, from the i-th encoding on: the number of
\* the encoding that loaded the file, or 0 when an exception left the loop
\* (UnicodeDecodeError under the last encoding, or any other exception).
RECURSIVE load_from(_, _)
load_from(decodes, i) ==
    IF i > Len(encodings_to_try) THEN 0
    ELSE IF decodes[i] = "ok" THEN i
    ELSE IF decodes[i] = "unicode_error"
         THEN IF i = Len(encodings_to_try) THEN 0 ELSE load_from(decodes, i + 1)
    ELSE 0

\* The encodings the loop opens the file with, from the i-th encoding on.
RECURSIVE attempted(_, _)
attempted(decodes, i) ==
    IF i > Len(encodings_to_try) THEN << >>
    ELSE IF decodes[i] = "unicode_error"
    THEN << encodings_to_try[i] >> \o attempted(decodes, i + 1)
    ELSE << encodings_to_try[i] >>

\* The exception that leaves the loop, from the i-th encoding on: "none" when
\* the file loaded, "could_not_decode" for the Exception whose message lists
\* encodings_to_try, else the exception open() or json.load() raised.
RECURSIVE load_error(_, _)
load_error(decodes, i) ==
    IF i > Len(encodings_to_try) THEN "none"
    ELSE IF decodes[i] = "ok" THEN "none"
    ELSE IF decodes[i] = "unicode_error"
         THEN IF i = Len(encodings_to_try) THEN "could_not_decode"
              ELSE load_error(decodes, i + 1)
    ELSE decodes[i]

\* data.get('features', [])
get_features(data) == IF data.has_features THEN data.features ELSE << >>

\* The set built by the loop over data['features'].
geometry_types(features) ==
    {features[i].geometry.type :
        i \in {j \in DOMAIN features : features[j].geometry.tag = "typed"}}

\* Faulty variant: each family test asks for any label of the family.
resolve_geometry_type_any_member(types) ==
    IF "MultiPolygon" \in types \/ "Polygon" \in types
    THEN {Some("MultiPolygon")}
    ELSE IF "MultiLineString" \in types \/ "LineString" \in types
    THEN {Some("MultiLineString")}
    ELSE IF "MultiPoint" \in types \/ "Point" \in types
    THEN {Some("MultiPoint")}
    ELSE IF types /= {} THEN {Some(t) : t \in types}
    ELSE {None}

\* The if/elif chain choosing geometry_type.  next(iter(set)) yields whichever
\* element the set's iteration order puts first: any element.
resolve_geometry_type(types) ==
    IF "MultiPolygon" \in types
         \/ ("Polygon" \in types /\ "MultiPolygon" \in types)
    THEN {Some("MultiPolygon")}
    ELSE IF "MultiLineString" \in types
         \/ ("LineString" \in types /\ "MultiLineString" \in types)
    THEN {Some("MultiLineString")}
    ELSE IF "MultiPoint" \in types
         \/ ("Point" \in types /\ "MultiPoint" \in types)
    THEN {Some("MultiPoint")}
    ELSE IF types /= {} THEN {Some(t) : t \in types}
    ELSE {None}

\* Faulty variant: 'properties' starts as an empty dict instead of None.
examine_geojson_empty_properties(f) ==
    LET features == get_features(f.data)
        feature_count == Len(features)
        properties == IF feature_count > 0
                      THEN get_properties(features[1])
                      ELSE PropsOf(<< >>)
    IN  IF load_from(f.decodes, 1) = 0 THEN {None}
        ELSE IF \E i \in DOMAIN features : features[i].geometry.tag = "null"
        THEN {None}
        ELSE {Some([feature_count |-> feature_count,
                    geometry_type |-> g,
                    properties |-> properties,
                    raw_data |-> f.data]) :
                 g \in resolve_geometry_type(geometry_types(features))}

\* The values examine_geojson can return for a file: None on any exception.
examine_geojson(f) ==
    LET features == get_features(f.data)
        feature_count == Len(features)
        properties == IF feature_count > 0
                      THEN get_properties(features[1])
                      ELSE PropsNull
    IN  IF load_from(f.decodes, 1) = 0 THEN {None}
        ELSE IF \E i \in DOMAIN features : features[i].geometry.tag = "null"
        THEN {None}     \* 'type' in None raises TypeError
        ELSE {Some([feature_count |-> feature_count,
                    geometry_type |-> g,
                    properties |-> properties,
                    raw_data |-> f.data]) :
                 g \in resolve_geometry_type(geometry_types(features))}

\* What "Error examining GeoJSON: {e}" reports: "none" when nothing is printed.
examine_error(f) ==
    IF load_from(f.decodes, 1) = 0 THEN load_error(f.decodes, 1)
    ELSE IF \E i \in DOMAIN get_features(f.data) :
               get_features(f.data)[i].geometry.tag = "null"
    THEN "type_error"
    ELSE "none"

-----------------------------------------------------------------------------
(* ingest_geojson_to_postgis: the table synthesizer *)

\* Faulty variant: the result of examine_geojson is used unchecked.
not_info_unchecked(info) == FALSE

\* if not geojson_info: return False
not_info(info) == IsNone(info)

\* Faulty variant: the 'Polygon' entry carries the MultiPolygon value.
postgis_type_map_typo(geometry_type) ==
    CASE geometry_type = Some("Point") -> "POINT"
      [] geometry_type = Some("LineString") -> "LINESTRING"
      [] geometry_type = Some("Polygon") -> "MULTIPOLYGON"
      [] geometry_type = Some("MultiPoint") -> "MULTIPOINT"
      [] geometry_type = Some("MultiLineString") -> "MULTILINESTRING"
      [] geometry_type = Some("MultiPolygon") -> "MULTIPOLYGON"
      [] OTHER -> "GEOMETRY"

\* postgis_type_map.get(geometry_type, 'GEOMETRY')
postgis_type_map(geometry_type) ==
    CASE geometry_type = Some("Point") -> "POINT"
      [] geometry_type = Some("LineString") -> "LINESTRING"
      [] geometry_type = Some("Polygon") -> "POLYGON"
      [] geometry_type = Some("MultiPoint") -> "MULTIPOINT"
      [] geometry_type = Some("MultiLineString") -> "MULTILINESTRING"
      [] geometry_type = Some("MultiPolygon") -> "MULTIPOLYGON"
      [] OTHER -> "GEOMETRY"

\* A CRS name is a sequence of symbols: "EPSG" stands for that substring, "x"
\* for any other text without a colon or a digit.
NameSyms == {"EPSG", ":", "3", "7", "x"}
\* "urn:ogc:def:crs:EPSG::3857"
UrnEpsg3857 ==
    << "x", ":", "x", ":", "x", ":", "x", ":", "EPSG", ":", ":", "3", "8", "5", "7" >>
Digits == {"3", "5", "7", "8"}
DigitValue(sym) ==
    CASE sym = "3" -> 3 [] sym = "5" -> 5 [] sym = "7" -> 7 [] sym = "8" -> 8

\* name.split(':')[-1]
LastField(name) ==
    LET colons == {i \in DOMAIN name : name[i] = ":"}
        start == IF colons = {} THEN 1
                 ELSE 1 + CHOOSE i \in colons : \A j \in colons : j <= i
    IN  SubSeq(name, start, Len(name))

\* int(s): None stands for ValueError.
RECURSIVE DecimalValue(_)
DecimalValue(s) ==
    IF s = << >> THEN 0
    ELSE 10 * DecimalValue(SubSeq(s, 1, Len(s) - 1)) + DigitValue(s[Len(s)])

int(s) ==
    IF s /= << >> /\ \A i \in DOMAIN s : s[i] \in Digits
    THEN Some(DecimalValue(s)) ELSE None

DefaultSrid == 4326

CrsAbsent == [tag |-> "absent", type |-> "", has_properties |-> FALSE, name |-> None]
CrsNull == [tag |-> "null", type |-> "", has_properties |-> FALSE, name |-> None]
CrsOf(t, hp, n) == [tag |-> "object", type |-> t, has_properties |-> hp, name |-> n]

\* crs['properties'].get('name', '')
get_name(crs) == IF IsNone(crs.name) THEN << >> ELSE Val(crs.name)

\* Faulty variant: 'if not source_srid' in place of 'if source_srid is None', and no
\* detection from the CRS block.
resolve_source_srid_falsy(arg, data) ==
    IF ~IsNone(arg) /\ Val(arg) /= 0 THEN [raised |-> FALSE, srid |-> arg]
    ELSE [raised |-> data.crs.tag = "null", srid |-> Some(DefaultSrid)]

\* The source_srid block: [raised, srid].  A null 'crs' makes crs.get raise.
resolve_source_srid(arg, data) ==
    IF ~IsNone(arg) THEN [raised |-> FALSE, srid |-> arg]
    ELSE IF data.crs.tag = "null" THEN [raised |-> TRUE, srid |-> None]
    ELSE LET crs == data.crs
             detected ==
                 IF crs.tag = "object" /\ crs.type = "name" /\ crs.has_properties
                    /\ "EPSG" \in Range(get_name(crs))
                 THEN int(LastField(get_name(crs)))
                 ELSE None
         IN  [raised |-> FALSE,
              srid |-> IF IsNone(detected) THEN Some(DefaultSrid) ELSE detected]

\* The isinstance chain of the column loop.
col_type(kind) ==
    IF isinstance_int(kind) THEN "INTEGER"
    ELSE IF isinstance_float(kind) THEN "NUMERIC"
    ELSE IF isinstance_bool(kind) THEN "BOOLEAN"
    ELSE "TEXT"

\* The columns list, in properties.items() order.
build_columns(items) ==
    [i \in DOMAIN items |-> [name |-> items[i].name,
                             col_type |-> col_type(items[i].kind)]]

\* Faulty variant: geom is declared with the default SRID whatever the target.
build_create_table_sql_fixed_srid(cols, ptype, tsrid) ==
    [kind |-> "CREATE",
     id |-> "SERIAL PRIMARY KEY",
     columns |-> cols,
     geom_type |-> ptype,
     geom_srid |-> DefaultSrid]

\* The CREATE TABLE statement.
build_create_table_sql(cols, ptype, tsrid) ==
    [kind |-> "CREATE",
     id |-> "SERIAL PRIMARY KEY",
     columns |-> cols,
     geom_type |-> ptype,
     geom_srid |-> tsrid]

\* input(...).lower() over the answers of the model.
Answers == {"yes", "YES", "Y", "no", "yes "}
lower(a) ==
    CASE a \in {"yes", "YES"} -> "yes"
      [] a \in {"y", "Y"} -> "y"
      [] OTHER -> a

\* Faulty variant: anything but a refusal is taken as consent.
accepted_unless_no(answer) == answer \notin {"no", "n"}

\* proceed in ["yes", "y"]
accepted(answer) == answer \in {"yes", "y"}

\* Faulty variant: inserted += 1 placed before cursor.execute.
count_inserted_always(n, outcome) == n + 1

\* inserted += 1 follows cursor.execute inside the try: a raising execute
\* skips it.
count_inserted(n, outcome) == IF outcome = "ok" THEN n + 1 ELSE n

\* The except clause of the loop prints "Error inserting feature".
count_failures(n, outcome) == IF outcome = "ok" THEN n ELSE n + 1

\* if inserted % 100 == 0 or inserted == total:
ProgressEvery == 100
progress_due(n, t) == n % ProgressEvery = 0 \/ n = t

\* int(inserted/total*100) inside the row's try: ZeroDivisionError when
\* total is 0, which the row's except reports as a failed insert.
progress_raises(outcome, n, t) == outcome = "ok" /\ progress_due(n, t) /\ t = 0

\* print(f"Progress: {inserted}/{total} features inserted (...%)"), reached
\* only after an insert that did not raise; n is the count after it.
print_progress(lines, outcome, n, t) ==
    IF outcome = "ok" /\ progress_due(n, t) /\ t /= 0
    THEN Append(lines, << n, t >>)
    ELSE lines

\* Faulty variant: conn.commit() and the return indented into the loop body.
loop_done_early(i, features) == i >= 1 \/ i = Len(features)

\* 'for feature in features' is exhausted after the last feature; conn.commit()
\* follows the loop.
loop_done(i, features) == i = Len(features)

-----------------------------------------------------------------------------
(* The database session behind conn/cursor (psycopg2, autocommit off) *)

\* Column names of a statement's column list.
Names(items) == [i \in DOMAIN items |-> items[i].name]
Kinds(items) == [i \in DOMAIN items |-> items[i].kind]

\* cursor.execute(create_table_sql): an empty column list is a syntax error
\* (", ," in the statement); otherwise the server decides.
create_outcomes(cols) ==
    IF cols = << >> THEN {"server_error"} ELSE {"ok", "server_error"}

\* CREATE TABLE IF NOT EXISTS leaves an existing table as it is.
table_after_create(table, cols) ==
    IF IsNone(table) THEN Some({cols[i].name : i \in DOMAIN cols}) ELSE table

\* cursor.execute(insert_sql, values): a nested value cannot be adapted by
\* the driver (raised before anything is sent); a statement sent in an
\* aborted transaction, with an empty column list or naming a column the
\* table lacks is refused by the server; any other row the server may accept
\* or refuse (types, constraints, geometry).
insert_outcomes(session, items) ==
    IF \E i \in DOMAIN items : items[i].kind = "nested" THEN {"client_error"}
    ELSE IF session.txn = "aborted" THEN {"server_error"}
    ELSE IF items = << >> \/ IsNone(session.table) THEN {"server_error"}
    ELSE IF ~(Range(Names(items)) \subseteq Val(session.table))
    THEN {"server_error"}
    ELSE {"ok", "server_error"}

\* Faulty variant: the column list in another order than the values.
Reverse(seq) == [i \in DOMAIN seq |-> seq[Len(seq) + 1 - i]]
build_insert_sql_reordered(items, ssrid, tsrid) ==
    [kind |-> "INSERT",
     columns |-> Reverse(Names(items)),
     values |-> Kinds(items),
     from_srid |-> ssrid,
     to_srid |-> tsrid]

\* The INSERT statement built for one feature.
build_insert_sql(items, ssrid, tsrid) ==
    [kind |-> "INSERT",
     columns |-> Names(items),
     values |-> Kinds(items),
     from_srid |-> ssrid,
     to_srid |-> tsrid]

\* A server error aborts the open transaction; a driver error does not.
txn_after(txn, outcome) == IF outcome = "server_error" THEN "aborted" ELSE txn

Issue(session, stmt, outcome) ==
    [session EXCEPT !.stmts = Append(@, [stmt |-> stmt, outcome |-> outcome]),
                    !.txn = txn_after(@, outcome)]

\* COMMIT of an aborted transaction rolls it back.
Committed(session) ==
    IF session.txn = "aborted" THEN session
    ELSE [session EXCEPT !.persisted =
             Some([table |-> session.table,
                   rows |-> Cardinality({i \in DOMAIN session.stmts :
                               /\ session.stmts[i].stmt.kind = "INSERT"
                               /\ session.stmts[i].outcome = "ok"})])]

-----------------------------------------------------------------------------
(* Inputs *)

Doc(features, crs) == [has_features |-> TRUE, features |-> features, crs |-> crs]
AllDecode == << "ok", "ok", "ok" >>
File(decodes, data) == [exists |-> TRUE, decodes |-> decodes, data |-> data]

DefaultProps == PropsOf(<< Item("a", "int") >>)
DefaultFeature == Feature(GeomOf("Point"), DefaultProps)
DefaultData == Doc(<< DefaultFeature >>, CrsAbsent)

Input(f, arg, tsrid, table) ==
    [file |-> f, source_srid_arg |-> arg, target_srid |-> tsrid, table |-> table]

\* Documents that differ in their features' geometries.
GeomInputs ==
    {Input(File(AllDecode,
                Doc([i \in DOMAIN gs |-> Feature(gs[i], DefaultProps)], CrsAbsent)),
           None, DefaultSrid, None) :
        gs \in SeqsUpTo(Geometries, MaxShort)}

\* Documents that differ in the first feature's properties.
ColKeys == {"a", "b", "c"}
ExampleKeys == {"a", "b", "c", "d"}
ItemSeqs(keys, n) ==
    UNION {{[i \in DOMAIN ns |-> Item(ns[i], ks[i])] :
               ks \in [DOMAIN ns -> ValueKinds]} : ns \in InjSeqs(keys, n)}
ExampleKind(key) ==
    CASE key = "a" -> "bool" [] key = "b" -> "int"
      [] key = "c" -> "float" [] OTHER -> "str"
ExampleItems ==
    {[i \in DOMAIN ns |-> Item(ns[i], ExampleKind(ns[i]))] :
        ns \in {s \in InjSeqs(ExampleKeys, Cardinality(ExampleKeys)) :
                   Len(s) = Cardinality(ExampleKeys)}}
ColInputs ==
    {Input(File(AllDecode, Doc(<< Feature(GeomOf("Point"), p) >>, CrsAbsent)),
           None, DefaultSrid, None) :
        p \in {PropsAbsent, PropsNull}
              \cup {PropsOf(it) : it \in ItemSeqs(ColKeys, MaxProps) \cup ExampleItems}}

\* Documents and arguments that differ in the coordinate reference.
CrsShapes ==
    {CrsAbsent, CrsNull, CrsOf("name", FALSE, None), CrsOf("name", TRUE, None),
     CrsOf("name", TRUE, Some(UrnEpsg3857)), CrsOf("link", TRUE, Some(UrnEpsg3857)),
     CrsOf("link", TRUE, Some(<< "EPSG", ":", "3" >>))}
CrsNames == {CrsOf("name", TRUE, Some(n)) : n \in SeqsUpTo(NameSyms, MaxNameLen)}
SridArgs == {None, Some(0), Some(3857)}
TargetSrids == {DefaultSrid, 3857}
CrsInputs ==
    {Input(File(AllDecode, Doc(<< DefaultFeature >>, c)), a, t, None) :
        c \in CrsShapes, a \in SridArgs, t \in TargetSrids}
    \cup {Input(File(AllDecode, Doc(<< DefaultFeature >>, c)), a, DefaultSrid, None) :
        c \in CrsNames, a \in {None, Some(0)}}

\* Documents that differ in every feature's properties, loaded into a fresh
\* table or into one that exists already.
RunProps ==
    {PropsAbsent, PropsNull,
     PropsOf(<< Item("a", "int") >>),
     PropsOf(<< Item("a", "nested") >>),
     PropsOf(<< Item("a", "int"), Item("b", "str") >>),
     PropsOf(<< Item("b", "str"), Item("a", "int") >>),
     PropsOf(<< Item("c", "str") >>)}
RunDoc(ps) == Doc([i \in DOMAIN ps |-> Feature(GeomOf("Point"), ps[i])], CrsAbsent)
ExistingTable == Some({"a", "c"})
RunInputs ==
    {Input(File(AllDecode, RunDoc(ps)), None, DefaultSrid, None) :
        ps \in SeqsUpTo(RunProps, MaxFeatures)}
    \cup {Input(File(AllDecode, RunDoc(ps)), None, DefaultSrid, ExistingTable) :
        ps \in SeqsUpTo(RunProps, MaxShort)}

\* Files that differ in how they load.  latin-1 decodes every byte sequence.
FileDecodes ==
    {d \in [1..Len(encodings_to_try) -> DecodeOutcomes] :
        d[2] /= "unicode_error"}
FileInputs ==
    {Input(File(d, DefaultData), None, DefaultSrid, None) : d \in FileDecodes}
    \cup {Input([exists |-> FALSE, decodes |-> AllDecode, data |-> DefaultData],
                None, DefaultSrid, None),
          Input(File(AllDecode,
                     [has_features |-> FALSE, features |-> << >>, crs |-> CrsAbsent]),
                None, DefaultSrid, None)}

\* Long documents: more than ProgressEvery features, all alike but for the
\* first, whose insert may succeed or always fails in the client.
LongProps ==
    {DefaultProps, PropsOf(<< Item("a", "nested") >>)}
LongInputs ==
    {Input(File(AllDecode,
                RunDoc([i \in 1..(ProgressEvery + MaxBeyond) |->
                           IF i = 1 THEN p ELSE DefaultProps])),
           None, DefaultSrid, None) :
        p \in LongProps}

Inputs ==
    GeomInputs \cup ColInputs \cup CrsInputs \cup RunInputs \cup FileInputs
    \cup LongInputs

Scripts == {"ingest", "list_tables", "main", "query_1", "query_examples"}

-----------------------------------------------------------------------------
(* State machine *)

Init ==
    /\ script \in Scripts
    /\ \E in \in (IF script = "ingest" THEN Inputs
                  ELSE {Input(File(AllDecode, DefaultData), None, DefaultSrid, None)}) :
          /\ file = in.file
          /\ source_srid_arg = in.source_srid_arg
          /\ target_srid = in.target_srid
          /\ db = [txn |-> "idle", table |-> in.table, stmts |-> << >>,
                   persisted |-> None]
    /\ pc = "start"
    /\ conn = "none"
    /\ geojson_info = None
    /\ postgis_type = None
    /\ source_srid = None
    /\ columns = << >>
    /\ create_table_sql = None
    /\ side_file = None
    /\ proceed = None
    /\ idx = 0
    /\ total = 0
    /\ inserted = 0
    /\ failures = 0
    /\ tally = None
    /\ progress = << >>
    /\ examine_log = None
    /\ prompts = << >>
    /\ result = None

ingest_vars == << geojson_info, postgis_type, source_srid, columns,
                  create_table_sql, side_file, proceed, db, idx, total,
                  inserted, failures, tally, progress, examine_log,
                  prompts, result >>
input_vars == << script, file, source_srid_arg, target_srid >>

\* psycopg2.connect(**db_params): every script opens its connection first.
\* query_1's connect_to_db returns None on failure and main's assert stops it.
Connect ==
    /\ pc = "start"
    /\ \E ok \in BOOLEAN :
          IF ok THEN conn' = "open" /\ pc' = "connected"
          ELSE conn' = conn /\ pc' = "exit"
    /\ UNCHANGED << input_vars, ingest_vars >>

(* ingest.py, script body *)

\* cursor.execute("SELECT postgis_version();"), fetchone, print.
CheckVersion ==
    /\ script = "ingest" /\ pc = "connected"
    /\ \E ok \in BOOLEAN :
          /\ pc' = IF ok THEN "ask_file" ELSE "exit"
          /\ db' = IF ok THEN [db EXCEPT !.txn = "open"]
                   ELSE [db EXCEPT !.txn = "aborted"]
    /\ UNCHANGED << input_vars, conn, geojson_info, postgis_type, source_srid,
                    columns, create_table_sql, side_file, proceed, idx, total,
                    inserted, failures, tally, progress, examine_log,
                    prompts, result >>

\* input() of the path and os.path.exists; then the remaining prompts.
AskFile ==
    /\ script = "ingest" /\ pc = "ask_file"
    /\ pc' = IF file.exists THEN "examine" ELSE "closing"
    /\ prompts' = IF file.exists
                  THEN prompts \o << "file", "table", "source_srid", "target_srid" >>
                  ELSE Append(prompts, "file")
    /\ UNCHANGED << input_vars, conn, geojson_info, postgis_type, source_srid,
                    columns, create_table_sql, side_file, proceed, db, idx,
                    total, inserted, failures, tally, progress, examine_log,
                    result >>

\* The except clause of ingest_geojson_to_postgis, and its 'return False's.
ReturnFalse ==
    /\ result' = Some(FALSE)
    /\ pc' = "closing"

\* geojson_info = examine_geojson(file_path); if not geojson_info: return False
Examine ==
    /\ script = "ingest" /\ pc = "examine"
    /\ \E info \in examine_geojson(file) :
          /\ geojson_info' = info
          /\ examine_log' = Some([attempts |-> attempted(file.decodes, 1),
                                  error |-> examine_error(file)])
          /\ IF not_info(info) THEN ReturnFalse
             ELSE pc' = "synthesize" /\ result' = result
    /\ UNCHANGED << input_vars, conn, postgis_type, source_srid, columns,
                    create_table_sql, side_file, proceed, db, idx, total,
                    inserted, failures, tally, progress, prompts >>

\* From conn.cursor() to the print of the proposed table structure.
BuildDDL ==
    /\ script = "ingest" /\ pc = "synthesize"
    /\ LET info == Val(geojson_info)
           ptype == postgis_type_map(info.geometry_type)
           r == resolve_source_srid(source_srid_arg, info.raw_data)
           cols == build_columns(info.properties.items)
       IN  IF r.raised
           THEN /\ postgis_type' = Some(ptype)
                /\ UNCHANGED << source_srid, columns, create_table_sql >>
                /\ ReturnFalse
           ELSE IF info.properties.tag = "null"   \* None.items()
           THEN /\ postgis_type' = Some(ptype)
                /\ source_srid' = r.srid
                /\ UNCHANGED << columns, create_table_sql >>
                /\ ReturnFalse
           ELSE /\ postgis_type' = Some(ptype)
                /\ source_srid' = r.srid
                /\ columns' = cols
                /\ create_table_sql' =
                       Some(build_create_table_sql(cols, ptype, target_srid))
                /\ pc' = "write_side_file"
                /\ result' = result
    /\ UNCHANGED << input_vars, conn, geojson_info, side_file, proceed, db,
                    idx, total, inserted, failures, tally, progress,
                    examine_log, prompts >>

\* with open(f"{table_name}_table_structure.sql", "w") as f: f.write(...)
WriteSideFile ==
    /\ script = "ingest" /\ pc = "write_side_file"
    /\ \E ok \in BOOLEAN :
          IF ok THEN /\ side_file' = create_table_sql
                     /\ pc' = "confirm"
                     /\ result' = result
          ELSE /\ side_file' = side_file
               /\ ReturnFalse
    /\ UNCHANGED << input_vars, conn, geojson_info, postgis_type, source_srid,
                    columns, create_table_sql, proceed, db, idx, total,
                    inserted, failures, tally, progress,
                    examine_log, prompts >>

\* proceed = input(...).lower(); if proceed not in ["yes", "y"]: return False
Confirm ==
    /\ script = "ingest" /\ pc = "confirm"
    /\ \E answer \in Answers :
          /\ proceed' = Some(lower(answer))
          /\ prompts' = Append(prompts, "proceed")
          /\ IF ~accepted(lower(answer)) THEN ReturnFalse
             ELSE pc' = "create_table" /\ result' = result
    /\ UNCHANGED << input_vars, conn, geojson_info, postgis_type, source_srid,
                    columns, create_table_sql, side_file, db, idx, total,
                    inserted, failures, tally, progress, examine_log >>

\* cursor.execute(create_table_sql); total = len(features); inserted = 0
CreateTable ==
    /\ script = "ingest" /\ pc = "create_table"
    /\ \E outcome \in create_outcomes(columns) :
          /\ db' = [Issue(db, Val(create_table_sql), outcome) EXCEPT
                       !.table = IF outcome = "ok"
                                 THEN table_after_create(db.table, columns)
                                 ELSE db.table]
          /\ IF outcome = "ok"
             THEN /\ total' = Len(Val(geojson_info).raw_data.features)
                  /\ inserted' = 0
                  /\ pc' = "insert_loop"
                  /\ result' = result
             ELSE /\ UNCHANGED << total, inserted >>
                  /\ ReturnFalse
    /\ UNCHANGED << input_vars, conn, geojson_info, postgis_type, source_srid,
                    columns, create_table_sql, side_file, proceed, idx,
                    failures, tally, progress,
                    examine_log, prompts >>

\* One iteration of 'for feature in features'.
InsertFeature ==
    /\ script = "ingest" /\ pc = "insert_loop"
    /\ ~loop_done(idx, Val(geojson_info).raw_data.features)
    /\ LET feature == Val(geojson_info).raw_data.features[idx + 1]
           feature_props == get_properties(feature)
       IN  IF feature_props.tag = "null"       \* None.keys(), outside the try
           THEN /\ UNCHANGED << db, idx, inserted, failures, progress >>
                /\ ReturnFalse
           ELSE \E outcome \in insert_outcomes(db, feature_props.items) :
                   /\ db' = Issue(db,
                                  build_insert_sql(feature_props.items,
                                                   Val(source_srid), target_srid),
                                  outcome)
                   /\ idx' = idx + 1
                   /\ inserted' = count_inserted(inserted, outcome)
                   /\ progress' = print_progress(progress, outcome,
                                       count_inserted(inserted, outcome), total)
                   /\ failures' =
                        IF progress_raises(outcome,
                               count_inserted(inserted, outcome), total)
                        THEN failures + 1
                        ELSE count_failures(failures, outcome)
                   /\ pc' = pc
                   /\ result' = result
    /\ UNCHANGED << input_vars, conn, geojson_info, postgis_type, source_srid,
                    columns, create_table_sql, side_file, proceed, total, tally,
                    examine_log, prompts >>

\* conn.commit(), the "Completed" line, return True.
Commit ==
    /\ script = "ingest" /\ pc = "insert_loop"
    /\ loop_done(idx, Val(geojson_info).raw_data.features)
    /\ \E ok \in BOOLEAN :
          IF ok
          THEN /\ db' = Committed(Issue(db, [kind |-> "COMMIT"], "ok"))
               /\ tally' = Some(<< inserted, total >>)
               /\ result' = Some(TRUE)
               /\ pc' = "closing"
          ELSE /\ db' = Issue(db, [kind |-> "COMMIT"], "server_error")
               /\ tally' = tally
               /\ ReturnFalse
    /\ UNCHANGED << input_vars, conn, geojson_info, postgis_type, source_srid,
                    columns, create_table_sql, side_file, proceed, idx, total,
                    inserted, failures, progress, examine_log, prompts >>

\* KeyboardInterrupt is no Exception: neither except clause catches it and the
\* process ends where it stood: at the prompt or in a database call.
Interrupt ==
    /\ script = "ingest" /\ pc \in {"confirm", "create_table", "insert_loop"}
    /\ pc' = "killed"
    /\ UNCHANGED << input_vars, conn, ingest_vars >>

\* cursor.close(); conn.close(): an uncommitted transaction is rolled back.
CloseConnection ==
    /\ pc = "closing"
    /\ conn' = "closed"
    /\ pc' = "exit"
    /\ UNCHANGED << input_vars, ingest_vars >>

(* list_tables.py *)

\* The query for the user tables: it raises (except: print, return), finds
\* no table (print, return) or finds some.
ListTables ==
    /\ script = "list_tables" /\ pc = "connected"
    /\ \E found \in {"raise", "empty", "rows"} :
          pc' = IF found = "rows" THEN "describe" ELSE "exit"
    /\ UNCHANGED << input_vars, conn, ingest_vars >>

\* input() of a table name; when one is given, the three catalogue queries
\* and the row count, any of which may raise.
DescribeTable ==
    /\ script = "list_tables" /\ pc = "describe"
    /\ \E table_info \in {"", "t"}, ok \in BOOLEAN :
          pc' = IF table_info = "" \/ ok THEN "closing" ELSE "exit"
    /\ UNCHANGED << input_vars, conn, ingest_vars >>

(* main.py *)

\* cursor.execute("SELECT postgis_version();"), fetchone, print.
MainCheckVersion ==
    /\ script = "main" /\ pc = "connected"
    /\ \E ok \in BOOLEAN : pc' = IF ok THEN "closing" ELSE "exit"
    /\ UNCHANGED << input_vars, conn, ingest_vars >>

(* query_1.py *)

\* The try block of main(): whether it ends or raises, 'finally' follows.
AnalyzeDams ==
    /\ script = "query_1" /\ pc = "connected"
    /\ \E ok \in BOOLEAN : pc' = "closing"
    /\ UNCHANGED << input_vars, conn, ingest_vars >>

(* query_examples.py *)

\* The try block of run_power_plant_queries: the early return, the end of
\* the queries and an exception all reach 'finally'.
RunQueries ==
    /\ script = "query_examples" /\ pc = "connected"
    /\ \E how \in {"no_columns", "done", "raise"} : pc' = "closing"
    /\ UNCHANGED << input_vars, conn, ingest_vars >>

Next ==
    \/ Connect
    \/ CheckVersion
    \/ AskFile
    \/ Examine
    \/ BuildDDL
    \/ WriteSideFile
    \/ Confirm
    \/ CreateTable
    \/ InsertFeature
    \/ Commit
    \/ Interrupt
    \/ CloseConnection
    \/ ListTables
    \/ DescribeTable
    \/ MainCheckVersion
    \/ AnalyzeDams
    \/ RunQueries

Spec == Init /\ [][Next]_vars

-----------------------------------------------------------------------------
(* Properties: geometry-type resolution *)

\* The geometry-type labels the document's features carry.
DocLabels ==
    {f.geometry.type : f \in {g \in Range(get_features(file.data)) :
                                 g.geometry.tag = "typed"}}

Families == {<< "Polygon", "MultiPolygon" >>,
             << "LineString", "MultiLineString" >>,
             << "Point", "MultiPoint" >>}

Examined == ~IsNone(geojson_info)
ResolvedType == Val(geojson_info).geometry_type

Precedence(labels) ==
    IF labels \cap {"Polygon", "MultiPolygon"} /= {} THEN Some("MultiPolygon")
    ELSE IF labels \cap {"LineString", "MultiLineString"} /= {}
    THEN Some("MultiLineString")
    ELSE IF labels \cap {"Point", "MultiPoint"} /= {} THEN Some("MultiPoint")
    ELSE IF labels /= {} THEN Some(CHOOSE l \in labels : TRUE)
    ELSE None

\* C2: the resolved type is given by the cross-family precedence rule (any
\* polygon label -> MultiPolygon, else any line label -> MultiLineString,
\* else any point label -> MultiPoint, else the single observed label), a
\* function of the label set.
C2_Precedence ==
    Examined => ResolvedType = Precedence(DocLabels)

\* str.upper() of the geometry-type labels.
UpperCase(label) ==
    CASE label = "Point" -> "POINT"
      [] label = "LineString" -> "LINESTRING"
      [] label = "Polygon" -> "POLYGON"
      [] label = "MultiPoint" -> "MULTIPOINT"
      [] label = "MultiLineString" -> "MULTILINESTRING"
      [] label = "MultiPolygon" -> "MULTIPOLYGON"
      [] label = "GeometryCollection" -> "GEOMETRYCOLLECTION"

DdlBuilt == ~IsNone(create_table_sql)

-----------------------------------------------------------------------------
(* Properties: column types *)

\* The type mapping policy: boolean, integer, floating-point, anything else.
PolicyType(kind) ==
    CASE kind = "bool" -> "BOOLEAN"
      [] kind = "int" -> "INTEGER"
      [] kind = "float" -> "NUMERIC"
      [] OTHER -> "TEXT"

FirstItems == get_properties(get_features(file.data)[1]).items

\* C4: every property of the first feature gets the column type the policy
\* gives its value (BOOLEAN for a boolean), whatever the order of the keys.
C4_TypeMapping ==
    DdlBuilt =>
        /\ Len(columns) = Len(FirstItems)
        /\ \A i \in DOMAIN columns :
              /\ columns[i].name = FirstItems[i].name
              /\ columns[i].col_type = PolicyType(FirstItems[i].kind)

-----------------------------------------------------------------------------
(* Properties: source SRID *)

\* The decimal number a CRS name ends with, after its last colon: the set is
\* empty when the name does not end that way.
RECURSIVE Pow10(_)
Pow10(n) == IF n = 0 THEN 1 ELSE 10 * Pow10(n - 1)
RECURSIVE Sum(_, _)
Sum(f, S) == IF S = {} THEN 0
             ELSE LET x == CHOOSE y \in S : TRUE IN f[x] + Sum(f, S \ {x})
TrailingCode(name) ==
    {Sum([i \in (Len(name) - k + 1)..Len(name) |->
              DigitValue(name[i]) * Pow10(Len(name) - i)],
         (Len(name) - k + 1)..Len(name)) :
        k \in {j \in 1..Len(name) :
                  /\ \A i \in (Len(name) - j + 1)..Len(name) : name[i] \in Digits
                  /\ (j = Len(name) \/ name[Len(name) - j] = ":")}}

\* The EPSG code the document's CRS block names, if it names one.
DocCrs == file.data.crs
DocEpsgCode ==
    IF /\ DocCrs.tag = "object" /\ DocCrs.type = "name" /\ DocCrs.has_properties
       /\ ~IsNone(DocCrs.name)
       /\ \E i \in DOMAIN Val(DocCrs.name) : Val(DocCrs.name)[i] = "EPSG"
    THEN TrailingCode(Val(DocCrs.name))
    ELSE {}

-----------------------------------------------------------------------------
(* Properties: the insert loop and the transaction *)

IsInsert(e) == e.stmt.kind = "INSERT"
IsCommit(e) == e.stmt.kind = "COMMIT"
IsCreate(e) == e.stmt.kind = "CREATE"
Inserts == SelectSeq(db.stmts, IsInsert)
Commits == SelectSeq(db.stmts, IsCommit)
Creates == SelectSeq(db.stmts, IsCreate)
Succeeded == {i \in DOMAIN Inserts : Inserts[i].outcome = "ok"}
DocFeatures == get_features(file.data)

\* Every feature gone through so far was attempted once, in document order,
\* and counted once; the final tally is the number of successful inserts.
C6_Counts ==
    /\ 0 <= inserted /\ inserted <= total
    /\ Len(Inserts) = idx
    /\ \A k \in DOMAIN Inserts :
          Inserts[k].stmt.columns = Names(get_properties(DocFeatures[k]).items)
    /\ inserted = Cardinality(Succeeded)
    /\ failures = idx - Cardinality(Succeeded)
    /\ ~IsNone(tally) =>
          /\ idx = Len(DocFeatures) /\ total = Len(DocFeatures)
          /\ inserted + failures = total
          /\ tally = Some(<< Cardinality(Succeeded), total >>)

\* A step that logs a failed insert stays in the loop and moves on to the
\* next feature.
C6_FailureContinues ==
    (failures' = failures + 1) =>
        /\ pc = "insert_loop" /\ pc' = "insert_loop"
        /\ idx' = idx + 1
        /\ inserted' = inserted
        /\ result' = result

Mutating == DOMAIN db.stmts
Prompted == ~IsNone(proceed)

\* C7: the DDL is in the side file before the prompt and before any
\* statement is sent to the database; after any answer but yes/y no
\* statement is ever sent and the function returns False.
C7_DryRunFirst ==
    /\ (pc = "confirm" \/ Prompted) =>
          (DdlBuilt /\ side_file = create_table_sql)
    /\ Mutating /= {} =>
          /\ DdlBuilt /\ side_file = create_table_sql
          /\ proceed \in {Some("yes"), Some("y")}
          /\ db.stmts[1].stmt = Val(side_file)
    /\ (Prompted /\ Val(proceed) \notin {"yes", "y"}) =>
          /\ Mutating = {}
          /\ IsNone(db.persisted)
          /\ pc \in {"closing", "exit"}
          /\ result = Some(FALSE)

C7_Witness ==
    /\ proceed = Some("yes ")
    /\ pc = "exit"
    /\ ~IsNone(side_file)
    /\ db.stmts = << >>
    /\ result = Some(FALSE)

Ended == pc \in {"closing", "exit", "killed"}

\* C8: at most one commit, issued after the CREATE TABLE and after every
\* feature's insert was attempted; a run that ends before the loop
\* completes issues no commit and persists nothing.
C8_SingleCommit ==
    /\ Len(Commits) <= 1
    /\ Commits /= << >> =>
          /\ Len(Creates) = 1
          /\ db.stmts[1].stmt.kind = "CREATE" /\ db.stmts[1].outcome = "ok"
          /\ db.stmts[Len(db.stmts)].stmt.kind = "COMMIT"
          /\ Len(Inserts) = Len(DocFeatures)
    /\ ~IsNone(db.persisted) =>
          (Commits /= << >> /\ Commits[1].outcome = "ok")
    /\ (Ended /\ (Creates = << >> \/ Len(Inserts) < Len(DocFeatures))) =>
          (Commits = << >> /\ IsNone(db.persisted))
    /\ (Ended /\ result /= Some(TRUE)) => IsNone(db.persisted)

\* Interrupted in mid-loop, after a successful insert.
C8_Witness ==
    /\ pc = "killed"
    /\ inserted > 0
    /\ Len(Inserts) < Len(DocFeatures)
    /\ Commits = << >>
    /\ IsNone(db.persisted)

\* C9: once opened, the connection is closed on every exit path of every
\* script.
C9_ConnectionReleased ==
    pc = "exit" => conn /= "open"

\* The columns of the first feature's schema, in its key order.
SchemaNames == Names(get_properties(DocFeatures[1]).items)
KeySet(k) == Range(Names(get_properties(DocFeatures[k]).items))

\* C10 as stated: every INSERT names the first feature's columns in the
\* first feature's key order, and a feature whose keys differ from the
\* first feature's fails.
C10_Original ==
    \A k \in DOMAIN Inserts :
        /\ Inserts[k].stmt.columns = SchemaNames
        /\ KeySet(k) /= KeySet(1) => Inserts[k].outcome /= "ok"

\* C10 amended: every INSERT names the feature's own property keys in the
\* feature's own key order (the first feature's schema only when the keys
\* agree with it) and supplies its values in that same order; nothing is
\* reconciled, and an insert naming a key the table has no column for fails
\* and is counted as a failure.
C10_Amended ==
    \A k \in DOMAIN Inserts :
        LET items == get_properties(DocFeatures[k]).items IN
        /\ Inserts[k].stmt.columns = Names(items)
        /\ Inserts[k].stmt.values = Kinds(items)
        /\ items = get_properties(DocFeatures[1]).items
              => Inserts[k].stmt.columns = Names(columns)
        /\ ~(KeySet(k) \subseteq Val(db.table)) =>
              /\ Inserts[k].outcome /= "ok"
              /\ failures >= 1

\* The second feature's keys are not the first feature's: its insert names
\* its own key, which the created table lacks, and fails.
C10_Witness ==
    /\ Len(Inserts) >= 2
    /\ Inserts[1].outcome = "ok"
    /\ Inserts[2].stmt.columns = << "c" >>
    /\ SchemaNames = << "a", "b" >>
    /\ Inserts[2].outcome = "server_error"
    /\ failures = 1

-----------------------------------------------------------------------------
(* C11: progress reporting *)

\* A progress line stands for each multiple of ProgressEvery the inserted
\* count has reached.
C11_EveryHundred ==
    \A m \in 1..inserted :
        m % ProgressEvery = 0 =>
            \E i \in DOMAIN progress : progress[i] = << m, total >>

\* The percentage is never computed with a total of 0.
C11_NoZeroDivision ==
    /\ \A i \in DOMAIN progress : progress[i][2] /= 0
    /\ pc = "insert_loop" /\ idx < Len(DocFeatures) => total /= 0

\* When the loop has completed, the last progress line reports its end.
C11_OnCompletion ==
    ~IsNone(tally) =>
        /\ progress /= << >>
        /\ progress[Len(progress)] = Val(tally)

\* C11: a progress line (inserted/total with its percentage) is printed each
\* time the inserted count reaches a multiple of 100, and one is printed on
\* completion of the loop in every run, runs with failed rows included; the
\* percentage never divides by zero.
C11_Progress ==
    /\ C11_EveryHundred
    /\ C11_NoZeroDivision
    /\ C11_OnCompletion

-----------------------------------------------------------------------------
(* C12: the encoding fallback *)

\* The encodings under which the file both decodes and parses as JSON.
Succeeding == {i \in DOMAIN encodings_to_try : file.decodes[i] = "ok"}
FirstSucceeding == CHOOSE i \in Succeeding : \A j \in Succeeding : i <= j

\* C12: the encodings are attempted in the order utf-8, latin-1, cp1252; the
\* attempts stop at the first encoding under which the file decodes and
\* parses, and no later one is attempted; when none succeeds the function
\* returns None with the decoding error that names all three encodings.
C12_EncodingFallback ==
    ~IsNone(examine_log) =>
        LET log == Val(examine_log) IN
        /\ log.attempts = SubSeq(encodings_to_try, 1, Len(log.attempts))
        /\ Succeeding /= {} =>
              /\ log.attempts = SubSeq(encodings_to_try, 1, FirstSucceeding)
              /\ log.error /= "could_not_decode"
        /\ Succeeding = {} =>
              /\ IsNone(geojson_info)
              /\ log.attempts = encodings_to_try
              /\ log.error = "could_not_decode"

-----------------------------------------------------------------------------
(* C13: errors that abort the whole ingest *)

\* The file cannot be loaded: the first encoding that does not fail to
\* decode fails to open or to parse, or none decodes.
LoadFails ==
    \A i \in DOMAIN encodings_to_try :
        file.decodes[i] = "ok" =>
            \E j \in 1..(i - 1) : file.decodes[j] /= "unicode_error"

ExamineReturned == script = "ingest" /\ ~IsNone(examine_log)

\* C13: when examine_geojson fails, ingest_geojson_to_postgis returns False
\* with a printed diagnostic, having written no DDL side file, asked for no
\* confirmation and issued no database statement; when the connection
\* cannot be opened, nothing is prompted for and the ingest is never called.
C13_ErrorsAbort ==
    /\ ExamineReturned /\ (LoadFails \/ IsNone(geojson_info)) =>
          /\ IsNone(geojson_info)
          /\ Val(examine_log).error /= "none"
          /\ result = Some(FALSE)
          /\ pc \in {"closing", "exit"}
          /\ IsNone(create_table_sql) /\ IsNone(side_file)
          /\ IsNone(proceed) /\ "proceed" \notin Range(prompts)
          /\ db.stmts = << >>
          /\ IsNone(db.persisted)
    /\ script = "ingest" /\ conn = "none" =>
          /\ pc \in {"start", "exit"}
          /\ prompts = << >>
          /\ IsNone(examine_log) /\ IsNone(geojson_info) /\ IsNone(result)

\* A file that is not UTF-8 and not JSON as latin-1 text: the run has ended
\* with False, the connection closed and nothing done in between.
C13_Witness ==
    /\ ExamineReturned
    /\ Val(examine_log) = [attempts |-> << "utf-8", "latin-1" >>,
                           error |-> "json_error"]
    /\ result = Some(FALSE)
    /\ prompts = << "file", "table", "source_srid", "target_srid" >>
    /\ db.stmts = << >>
    /\ pc = "exit" /\ conn = "closed"

-----------------------------------------------------------------------------
(* C14: the shape of the synthesized statements *)

\* The geometry type the claim has declared for a resolved type.
DeclaredType(g) ==
    IF IsNone(g) THEN "GEOMETRY"
    ELSE IF Val(g) \in KnownTypes THEN UpperCase(Val(g))
    ELSE "GEOMETRY"

\* C14: every synthesized CREATE TABLE has the column 'id SERIAL PRIMARY KEY'
\* and a geom column declared with the target SRID (never the source SRID)
\* and with the upper-case form of the resolved geometry type, or GEOMETRY
\* when that type is undefined or not one of the six known types; every
\* inserted geometry is transformed from the source SRID to the target SRID.
C14_StatementShape ==
    /\ DdlBuilt =>
          LET ddl == Val(create_table_sql) IN
          /\ ddl.kind = "CREATE"
          /\ ddl.id = "SERIAL PRIMARY KEY"
          /\ ddl.geom_srid = target_srid
          /\ Val(source_srid) /= target_srid => ddl.geom_srid /= Val(source_srid)
          /\ ddl.geom_type = DeclaredType(ResolvedType)
    /\ \A k \in DOMAIN Creates : Creates[k].stmt = Val(create_table_sql)
    /\ \A k \in DOMAIN Inserts :
          /\ Inserts[k].stmt.from_srid = Val(source_srid)
          /\ Inserts[k].stmt.to_srid = target_srid
          /\ Inserts[k].stmt.to_srid = Val(create_table_sql).geom_srid

\* Source 4326 from the document's default, target 3857: the table was
\* created with geom in 3857 and a row was inserted with that transform.
C14_Witness ==
    /\ DdlBuilt
    /\ Val(source_srid) = DefaultSrid /\ target_srid = 3857
    /\ Val(create_table_sql).geom_srid = 3857
    /\ Val(create_table_sql).geom_type = "POINT"
    /\ Len(Creates) = 1 /\ Creates[1].outcome = "ok"
    /\ Len(Inserts) = 1 /\ Inserts[1].outcome = "ok"
    /\ Inserts[1].stmt.from_srid = DefaultSrid
    /\ Inserts[1].stmt.to_srid = 3857

-----------------------------------------------------------------------------
(* C15: a document without features *)

\* The file loads as JSON and has no 'features' or an empty list of them.
ZeroFeatures == script = "ingest" /\ ~LoadFails /\ DocFeatures = << >>

\* C15: for a valid document with zero features examine_geojson succeeds
\* with feature_count 0 and with geometry_type and properties undefined, and
\* ingest_geojson_to_postgis then fails while deriving the columns: it
\* returns False with no DDL side file written, no confirmation asked and no
\* CREATE TABLE, INSERT or COMMIT issued, the database unchanged.
C15_ZeroFeatures ==
    ZeroFeatures /\ ExamineReturned =>
        /\ Examined
        /\ Val(examine_log).error = "none"
        /\ Val(geojson_info).feature_count = 0
        /\ IsNone(Val(geojson_info).geometry_type)
        /\ Val(geojson_info).properties = PropsNull
        /\ pc /= "synthesize" =>
              /\ result = Some(FALSE)
              /\ pc \in {"closing", "exit"}
              /\ postgis_type = Some("GEOMETRY") /\ ~IsNone(source_srid)
              /\ columns = << >> /\ ~DdlBuilt
              /\ IsNone(side_file)
              /\ IsNone(proceed) /\ "proceed" \notin Range(prompts)
              /\ db.stmts = << >>
              /\ IsNone(db.persisted)

\* A document without 'features': the run has ended with False after the
\* geometry type and the source SRID were resolved, the connection closed.
C15_Witness ==
    /\ ZeroFeatures /\ ExamineReturned
    /\ ~file.data.has_features
    /\ Val(geojson_info).feature_count = 0
    /\ postgis_type = Some("GEOMETRY")
    /\ source_srid = Some(DefaultSrid)
    /\ result = Some(FALSE)
    /\ db.stmts = << >>
    /\ pc = "exit" /\ conn = "closed"

====
